---- MODULE Spec2Model ----
(***************************************************************************)
(* Model of BaytScraper (src/src/jobspy/scrapers/bayt/__init__.py): the    *)
(* pagination-and-extraction loop of scrape, the page fetch _fetch_jobs    *)
(* and the per-listing extraction _extract_job_info / _extract_job_url.    *)
(*                                                                         *)
(* One scrape call is a sequential process; pc is its position in the      *)
(* body of scrape.  The site is the environment: every fetch is answered   *)
(* by a response chosen nondeterministically (transport error, bad status, *)
(* or a document holding a list of listing nodes).                         *)
(***************************************************************************)
EXTENDS Integers, Sequences, FiniteSets, TLC

(***************************************************************************)
(* Bounds of the model.                                                    *)
(***************************************************************************)
\* Largest requested result count of the two interleaved calls.
MaxWantedPair == 2
\* Largest length of the pages built from every combination of SiteNodes.
MaxPageLen == 2
\* Largest explicitly requested result count (results_wanted).
MaxWanted == 5

(***************************************************************************)
(* Program constants.                                                      *)
(***************************************************************************)
\* BaytScraper.delay
delay == 2
\* BaytScraper.band_delay
band_delay == 3
\* the default of results_wanted in scrape
DefaultResultsWanted == 10

base_url == "https://www.bayt.com"
country == "worldwide"

(***************************************************************************)
(* Python values.  None is absent from a one-element-or-empty sequence     *)
(* (Optional[int]); for strings the sentinel "None" is used.               *)
(***************************************************************************)
NoInt == <<>>
SomeInt(n) == <<n>>
NoStr == "None"

Min(a, b) == IF a < b THEN a ELSE b
Max(a, b) == IF a > b THEN a ELSE b
Abs(n) == IF n < 0 THEN 0 - n ELSE n

(***************************************************************************)
(* Listing nodes.  A node is what the extraction reads of a <li> element:  *)
(*   h2       the node has an <h2>                                         *)
(*   title    the stripped text of the <h2>                                *)
(*   a        the <h2> holds an <a>                                        *)
(*   href     the href attribute of that <a>, NoStr when it has none       *)
(*   company  the text of the <span> in div.t-nowrap.p10l, NoStr if absent *)
(*   location the text of div.t-mute.t-small, NoStr if absent              *)
(*   raises   parsing this node raises an unexpected exception             *)
(***************************************************************************)
NodeA ==
    [h2 |-> TRUE, title |-> "Engineer", a |-> TRUE, href |-> "/job/a",
     company |-> "Acme", location |-> "Dubai", raises |-> FALSE]
NodeB ==
    [h2 |-> TRUE, title |-> "Nurse", a |-> TRUE, href |-> " /job/b ",
     company |-> NoStr, location |-> NoStr, raises |-> FALSE]
NodeNoTitle ==
    [h2 |-> FALSE, title |-> "", a |-> FALSE, href |-> NoStr,
     company |-> "Acme", location |-> "Dubai", raises |-> FALSE]
NodePoison ==
    [h2 |-> TRUE, title |-> "Engineer", a |-> TRUE, href |-> "/job/a",
     company |-> "Acme", location |-> "Dubai", raises |-> TRUE]

NodeNoHref ==
    [h2 |-> TRUE, title |-> "Clerk", a |-> TRUE, href |-> NoStr,
     company |-> NoStr, location |-> "Doha", raises |-> FALSE]

\* The listing nodes of the pages the site serves at every length.
SiteNodes == {NodeA, NodeNoTitle, NodeNoHref, NodePoison}

\* A page of 8 valid listings.
PageEightValid == <<NodeA, NodeB, NodeA, NodeB, NodeA, NodeB, NodeA, NodeB>>
\* A page of 3 valid listings and 2 without a title.
PageThreeValidTwoMalformed ==
    <<NodeA, NodeNoTitle, NodeB, NodeA, NodeNoTitle>>
\* A page of two different valid listings.
PageTwoValid == <<NodeB, NodeA>>

\* str.strip() on the href values of the model.
Strip(s) ==
    CASE s = " /job/b " -> "/job/b"
      [] s = " /job/a" -> "/job/a"
      [] OTHER -> s

\* hash() of a str within one process: a fixed function of the string.
Hash(s) ==
    CASE s = <<base_url, "/job/a">> -> 0 - 7
      [] s = <<base_url, "/job/b">> -> 5
      [] OTHER -> 11

\* Variant of ExtractJobUrl: `if a_tag:`, the href is not tested.
ExtractJobUrlAnyAnchor(node) ==
    IF node.a
    THEN <<base_url, Strip(node.href)>>
    ELSE <<>>

(***************************************************************************)
(* _extract_job_url: the URL of the <a> within the <h2>, or None.          *)
(***************************************************************************)
ExtractJobUrl(node) ==
    IF node.a /\ node.href # NoStr
    THEN <<base_url, Strip(node.href)>>
    ELSE <<>>

\* Variant of ExtractJobInfo: the id is built from the title.
ExtractJobInfoTitleId(node) ==
    IF node.raises THEN [kind |-> "exc"]
    ELSE IF ~node.h2 THEN [kind |-> "none"]
    ELSE IF ExtractJobUrl(node) = <<>> THEN [kind |-> "none"]
    ELSE [kind |-> "post",
          post |-> [id |-> <<"bayt-", node.title>>,
                    title |-> node.title,
                    company_name |-> node.company,
                    city |-> node.location,
                    country |-> country,
                    job_url |-> ExtractJobUrl(node)]]

(***************************************************************************)
(* _extract_job_info: [kind |-> "post", post |-> JobPost], or              *)
(* [kind |-> "none"] for a return of None, or [kind |-> "exc"] when the    *)
(* extraction raises.                                                      *)
(***************************************************************************)
ExtractJobInfo(node) ==
    IF node.raises THEN [kind |-> "exc"]
    ELSE IF ~node.h2 THEN [kind |-> "none"]
    ELSE IF ExtractJobUrl(node) = <<>> THEN [kind |-> "none"]
    ELSE [kind |-> "post",
          post |-> [id |-> <<"bayt-", Abs(Hash(ExtractJobUrl(node)))>>,
                    title |-> node.title,
                    company_name |-> node.company,
                    city |-> node.location,
                    country |-> country,
                    job_url |-> ExtractJobUrl(node)]]

\* Variant of FetchJobs: the failure of the GET is not caught.
FetchJobsUncaught(response) ==
    IF response.status = "ok"
    THEN [kind |-> "list", nodes |-> response.nodes]
    ELSE [kind |-> "exc", nodes |-> <<>>]

(***************************************************************************)
(* _fetch_jobs: the site's response to the GET of one page becomes the     *)
(* list of listing nodes, or None when anything in the try block raises.   *)
(* A response is [status |-> "error" | "bad_status" | "ok", nodes |-> seq].*)
(***************************************************************************)
FetchJobs(response) ==
    IF response.status = "ok"
    THEN [kind |-> "list", nodes |-> response.nodes]
    ELSE [kind |-> "none", nodes |-> <<>>]

\* `not job_elements`: None or the empty list.
Falsy(elements) == elements.kind # "list" \/ elements.nodes = <<>>

\* Variant of ResultsWanted: the default is off by one.
ResultsWantedOffByOne(wanted) ==
    IF wanted # NoInt /\ wanted[1] # 0
    THEN wanted[1] ELSE DefaultResultsWanted + 1

(***************************************************************************)
(* The head of scrape: results_wanted if it is truthy, else 10.            *)
(***************************************************************************)
ResultsWanted(wanted) ==
    IF wanted # NoInt /\ wanted[1] # 0 THEN wanted[1] ELSE DefaultResultsWanted

\* Variant of LoopGuard: while len(job_list) <= results_wanted
LoopGuardInclusive(count, wanted) == count <= wanted

\* while len(job_list) < results_wanted
LoopGuard(count, wanted) == count < wanted

\* Variant of NodeOutcome: no try/except around the extraction.
NodeOutcomeUncaught(r) ==
    CASE r.kind = "post" -> "append"
      [] r.kind = "none" -> "skip"
      [] r.kind = "exc" -> "raise"

\* Lines 50-63: what the body of the for loop does with the outcome of one
\* extraction.  A JobPost is appended; None is logged and skipped; an
\* exception is caught by `except Exception`, logged, and skipped.
NodeOutcome(r) ==
    CASE r.kind = "post" -> "append"
      [] r.kind = "none" -> "skip"
      [] r.kind = "exc" -> "skip"

\* Variant of AppendJob: a post whose job_url is in the list already is not appended.
AppendJobDedup(list, post) ==
    IF \E i \in 1 .. Len(list) : list[i].job_url = post.job_url
    THEN list
    ELSE Append(list, post)

\* Variant of AppendJob: job_list.insert(0, job_post)
PrependJob(list, post) == <<post>> \o list

\* job_list.append(job_post)
AppendJob(list, post) == Append(list, post)

\* Variant of QuotaBreak: the for loop has no break.
QuotaBreakNever(count, wanted) == FALSE

\* if len(job_list) >= results_wanted: break
QuotaBreak(count, wanted) == count >= wanted

\* Variant of Stagnant: the stagnation test never fires.
StagnantNever(count, initial) == FALSE

\* Variant of Stagnant: if len(job_list) <= initial_count + 1: break
StagnantBelowTwo(count, initial) == count <= initial + 1

\* if len(job_list) == initial_count: break
Stagnant(count, initial) == count = initial

\* Variant of NextPage: the page cursor is not advanced.
NextPageSame(p) == p

\* page += 1
NextPage(p) == p + 1

\* Variant of DelayRange: random.uniform(0, self.band_delay)
DelayRangeFromZero == 0 .. band_delay

\* random.uniform(self.delay, self.delay + self.band_delay), in whole units
DelayRange == delay .. (delay + band_delay)

\* Variant of Truncate: the slice stops one short,
\* job_list[: results_wanted - 1].
TruncateOneShort(list, wanted) ==
    IF wanted = NoInt THEN list
    ELSE SubSeq(list, 1, Min(wanted[1] - 1, Len(list)))

(***************************************************************************)
(* job_list[: scraper_input.results_wanted], the slice of Python:          *)
(* None keeps the list, n >= 0 keeps the first n, n < 0 drops the last -n. *)
(***************************************************************************)
Truncate(list, wanted) ==
    IF wanted = NoInt THEN list
    ELSE IF wanted[1] >= 0 THEN SubSeq(list, 1, Min(wanted[1], Len(list)))
    ELSE SubSeq(list, 1, Max(0, Len(list) + wanted[1]))

(***************************************************************************)
(* The environment: requests and pages.                                    *)
(***************************************************************************)
RECURSIVE SeqsUpTo(_, _)
SeqsUpTo(S, n) ==
    IF n = 0 THEN {<<>>}
    ELSE LET shorter == SeqsUpTo(S, n - 1)
         IN  shorter \cup {Append(s, x) : s \in shorter, x \in S}

\* The pages the site may serve: every page of at most MaxPageLen nodes of
\* SiteNodes, and the three pages above.
Pages ==
    SeqsUpTo(SiteNodes, MaxPageLen)
    \cup {PageEightValid, PageThreeValidTwoMalformed, PageTwoValid}

Responses ==
    {[status |-> "error", nodes |-> <<>>],
     [status |-> "bad_status", nodes |-> <<>>]}
    \cup {[status |-> "ok", nodes |-> p] : p \in Pages}

WantedInputs == {NoInt} \cup {SomeInt(n) : n \in 1 .. MaxWanted}

SearchTerms == {"engineer"}

\* The records a page yields when each of its nodes is extracted, in order.
RECURSIVE ExtractAll(_)
ExtractAll(nodes) ==
    IF nodes = <<>> THEN <<>>
    ELSE LET r == ExtractJobInfo(Head(nodes))
         IN  IF r.kind = "post"
             THEN <<r.post>> \o ExtractAll(Tail(nodes))
             ELSE ExtractAll(Tail(nodes))

\* What a response holds, as the loop of scrape sees it.
Yield(response) ==
    IF response.status # "ok" THEN "failure"
    ELSE IF response.nodes = <<>> THEN "empty"
    ELSE IF ExtractAll(response.nodes) = <<>> THEN "barren"
    ELSE "fruitful"

(***************************************************************************)
(* State.                                                                  *)
(***************************************************************************)
VARIABLES
    pc,              \* position in scrape
    scraper_input,   \* [search_term, results_wanted] of the call
    job_list,        \* the accumulator
    page,            \* the page cursor
    results_wanted,  \* the local results_wanted
    job_elements,    \* the value _fetch_jobs returned last
    idx,             \* position of the for loop in job_elements (1-based)
    initial_count,   \* len(job_list) before the page
    sleep_for,       \* the duration of the time.sleep in progress, else 0
    result,          \* the jobs of the returned JobResponse
    \* history of the call, read by the properties only
    fetch_log,       \* per fetch: the query, the page number, what it held
    discovered,      \* extractable records of the fetched pages, in order
    delays,          \* number of sleeps begun
    first_single,    \* page 1 held exactly one node, and it extracts
    \* the extraction applied on its own (SpecExtract)
    ex_nodes,        \* the listing nodes handed to _extract_job_info
    ex_posts,        \* what _extract_job_info gave for them, in order
    \* two scrape calls on two scraper instances (SpecPair)
    attrs,           \* per scraper instance: its attribute scraper_input
    calls            \* per call: the parameter and the locals of scrape

\* The state of one scrape call.
call_vars == <<pc, scraper_input, job_list, page, results_wanted,
               job_elements, idx, initial_count, sleep_for, result,
               fetch_log, discovered, delays, first_single>>

\* The state of the extraction applied on its own.
ex_vars == <<ex_nodes, ex_posts>>

\* The state of the two interleaved calls.
pair_vars == <<attrs, calls>>

vars == <<call_vars, ex_vars, pair_vars>>

Unfetched == [kind |-> "unset", nodes |-> <<>>]

Init ==
    /\ pc = "start"
    /\ scraper_input \in
         [search_term : SearchTerms, results_wanted : WantedInputs]
    /\ job_list = <<>>
    /\ page = 0
    /\ results_wanted = 0
    /\ job_elements = Unfetched
    /\ idx = 0
    /\ initial_count = 0
    /\ sleep_for = 0
    /\ result = <<>>
    /\ fetch_log = <<>>
    /\ discovered = <<>>
    /\ delays = 0
    /\ first_single = FALSE
    /\ ex_nodes = <<>>
    /\ ex_posts = <<>>
    /\ attrs = <<>>
    /\ calls = <<>>

(***************************************************************************)
(* scrape, lines 32-37.                                                    *)
(***************************************************************************)
Begin ==
    /\ pc = "start"
    /\ job_list' = <<>>
    /\ page' = 1
    /\ results_wanted' = ResultsWanted(scraper_input.results_wanted)
    /\ pc' = "while"
    /\ UNCHANGED <<scraper_input, job_elements, idx, initial_count,
                   sleep_for, result, fetch_log, discovered, delays,
                   first_single>>
    /\ UNCHANGED <<ex_vars, pair_vars>>

(***************************************************************************)
(* The test of the while loop, line 39.                                    *)
(***************************************************************************)
LoopTest ==
    /\ pc = "while"
    /\ pc' = IF LoopGuard(Len(job_list), results_wanted)
             THEN "fetch" ELSE "truncate"
    /\ UNCHANGED <<scraper_input, job_list, page, results_wanted,
                   job_elements, idx, initial_count, sleep_for, result,
                   fetch_log, discovered, delays, first_single>>
    /\ UNCHANGED <<ex_vars, pair_vars>>

(***************************************************************************)
(* Lines 40-48: the fetch of the current page, the exhaustion test and the *)
(* entry of the for loop.                                                  *)
(***************************************************************************)
Fetch ==
    /\ pc = "fetch"
    /\ \E response \in Responses :
         LET elements == FetchJobs(response)
         IN  /\ fetch_log' = Append(fetch_log,
                    [query |-> scraper_input.search_term, page |-> page,
                     yield |-> Yield(response)])
             /\ discovered' = discovered \o ExtractAll(response.nodes)
             /\ first_single' =
                    IF fetch_log = <<>>
                    THEN Len(response.nodes) = 1
                         /\ Len(ExtractAll(response.nodes)) = 1
                    ELSE first_single
             /\ IF elements.kind = "exc"
                THEN /\ pc' = "raised"
                     /\ UNCHANGED <<job_elements, initial_count, idx>>
                ELSE /\ job_elements' = elements
                     /\ IF Falsy(elements)
                        THEN /\ pc' = "truncate"
                             /\ UNCHANGED <<initial_count, idx>>
                        ELSE /\ initial_count' = Len(job_list)
                             /\ idx' = 1
                             /\ pc' = "for"
    /\ UNCHANGED <<scraper_input, job_list, page, results_wanted, sleep_for,
                   result, delays>>
    /\ UNCHANGED <<ex_vars, pair_vars>>

(***************************************************************************)
(* One iteration of the for loop, lines 49-63.                             *)
(***************************************************************************)
ExtractNode ==
    /\ pc = "for"
    /\ idx <= Len(job_elements.nodes)
    /\ LET r == ExtractJobInfo(job_elements.nodes[idx])
           todo == NodeOutcome(r)
       IN  IF todo = "append"
           THEN /\ job_list' = AppendJob(job_list, r.post)
                /\ IF QuotaBreak(Len(job_list'), results_wanted)
                   THEN pc' = "check" /\ idx' = idx
                   ELSE pc' = "for" /\ idx' = idx + 1
           ELSE IF todo = "skip"
           THEN /\ job_list' = job_list
                /\ pc' = "for"
                /\ idx' = idx + 1
           ELSE \* the exception leaves scrape
                /\ job_list' = job_list
                /\ pc' = "raised"
                /\ idx' = idx
    /\ UNCHANGED <<scraper_input, page, results_wanted, job_elements,
                   initial_count, sleep_for, result, fetch_log, discovered,
                   delays, first_single>>
    /\ UNCHANGED <<ex_vars, pair_vars>>

\* The for loop runs out of nodes.
EndOfPage ==
    /\ pc = "for"
    /\ idx > Len(job_elements.nodes)
    /\ pc' = "check"
    /\ UNCHANGED <<scraper_input, job_list, page, results_wanted,
                   job_elements, idx, initial_count, sleep_for, result,
                   fetch_log, discovered, delays, first_single>>
    /\ UNCHANGED <<ex_vars, pair_vars>>

(***************************************************************************)
(* Lines 65-70: the stagnation test, the page cursor, the start of the     *)
(* sleep.                                                                  *)
(***************************************************************************)
AfterPage ==
    /\ pc = "check"
    /\ IF Stagnant(Len(job_list), initial_count)
       THEN /\ pc' = "truncate"
            /\ UNCHANGED <<page, sleep_for, delays>>
       ELSE /\ page' = NextPage(page)
            /\ \E d \in DelayRange : sleep_for' = d
            /\ delays' = delays + 1
            /\ pc' = "sleep"
    /\ UNCHANGED <<scraper_input, job_list, results_wanted, job_elements,
                   idx, initial_count, result, fetch_log, discovered,
                   first_single>>
    /\ UNCHANGED <<ex_vars, pair_vars>>

\* time.sleep returns.
Wake ==
    /\ pc = "sleep"
    /\ sleep_for' = 0
    /\ pc' = "while"
    /\ UNCHANGED <<scraper_input, job_list, page, results_wanted,
                   job_elements, idx, initial_count, result, fetch_log,
                   discovered, delays, first_single>>
    /\ UNCHANGED <<ex_vars, pair_vars>>

(***************************************************************************)
(* Lines 72-73: the truncation and the return.                             *)
(***************************************************************************)
Return ==
    /\ pc = "truncate"
    /\ result' = Truncate(job_list, scraper_input.results_wanted)
    /\ pc' = "done"
    /\ UNCHANGED <<scraper_input, job_list, page, results_wanted,
                   job_elements, idx, initial_count, sleep_for, fetch_log,
                   discovered, delays, first_single>>
    /\ UNCHANGED <<ex_vars, pair_vars>>

Next ==
    \/ Begin
    \/ LoopTest
    \/ Fetch
    \/ ExtractNode
    \/ EndOfPage
    \/ AfterPage
    \/ Wake
    \/ Return

Spec == Init /\ [][Next]_vars

\* scrape runs on one thread, and each of its steps completes: the GET has
\* a timeout of 10, the sleep lasts at most delay + band_delay.
\* The calls with a requested count.
InitRequested == Init /\ scraper_input.results_wanted # NoInt

SpecLive == InitRequested /\ [][Next]_vars /\ WF_vars(Next)

(***************************************************************************)
(* The extraction applied on its own: _extract_job_info is called on two   *)
(* listing nodes, one after the other.  The nodes are every combination of *)
(* the parts the extraction reads that a document can hold: an <a> only    *)
(* within an <h2>, an href only on an <a>.  None of them makes the parsing *)
(* raise.                                                                  *)
(***************************************************************************)
ExtractNodes ==
    {n \in [h2 : BOOLEAN, title : {"", "Engineer", "Nurse"}, a : BOOLEAN,
            href : {NoStr, "/job/a", " /job/a", " /job/b "},
            company : {NoStr, "Acme"}, location : {NoStr, "Dubai"},
            raises : {FALSE}] :
        /\ (n.a => n.h2)
        /\ (n.href # NoStr => n.a)
        /\ (n.title = "" <=> ~n.h2)}

\* No scrape call is in progress.
InitExtract ==
    /\ pc = "start"
    /\ scraper_input = [search_term |-> "engineer", results_wanted |-> NoInt]
    /\ job_list = <<>>
    /\ page = 0
    /\ results_wanted = 0
    /\ job_elements = Unfetched
    /\ idx = 0
    /\ initial_count = 0
    /\ sleep_for = 0
    /\ result = <<>>
    /\ fetch_log = <<>>
    /\ discovered = <<>>
    /\ delays = 0
    /\ first_single = FALSE
    /\ ex_nodes \in {<<m, n>> : m \in ExtractNodes, n \in ExtractNodes}
    /\ ex_posts = <<>>
    /\ attrs = <<>>
    /\ calls = <<>>

\* One call of _extract_job_info, on the next node.
ExtractOne ==
    /\ Len(ex_posts) < Len(ex_nodes)
    /\ ex_posts' = Append(ex_posts, ExtractJobInfo(ex_nodes[Len(ex_posts) + 1]))
    /\ UNCHANGED <<ex_nodes, call_vars, pair_vars>>

NextExtract == ExtractOne

SpecExtract == InitExtract /\ [][NextExtract]_vars

(***************************************************************************)
(* Two scrape calls, each on a scraper instance of its own, interleaved    *)
(* step by step (two threads of the caller).  Call c runs on instance c.   *)
(* The parameter scraper_input and job_list, page, results_wanted,         *)
(* job_elements, initial_count are locals of the call; self.scraper_input  *)
(* is an attribute of the instance.                                        *)
(***************************************************************************)
Calls == {1, 2}

PairTerms == {"engineer", "nurse"}

PairInputs ==
    [search_term : PairTerms,
     results_wanted : {SomeInt(n) : n \in 1 .. MaxWantedPair}]

\* self.scraper_input = None, line 28
NoInput == [search_term |-> NoStr, results_wanted |-> NoInt]

\* Variant of InputSlot: scraper_input is kept on the class, one slot for
\* every instance.
InputSlotOfClass(self) == 1

\* self.scraper_input is an attribute of the instance self.
InputSlot(self) == self

\* The site answers a query with listings of that query: the valid listing
\* of its pages is NodeA for "engineer" and NodeB for "nurse".
ListingOf(query) == IF query = "engineer" THEN NodeA ELSE NodeB

PairResponses(query) ==
    {[status |-> "error", nodes |-> <<>>],
     [status |-> "ok", nodes |-> <<>>],
     [status |-> "ok", nodes |-> <<ListingOf(query)>>],
     [status |-> "ok", nodes |-> <<NodeNoTitle, ListingOf(query)>>],
     [status |-> "ok", nodes |-> <<NodePoison>>]}

InitPair ==
    /\ pc = "start"
    /\ scraper_input = [search_term |-> "engineer", results_wanted |-> NoInt]
    /\ job_list = <<>>
    /\ page = 0
    /\ results_wanted = 0
    /\ job_elements = Unfetched
    /\ idx = 0
    /\ initial_count = 0
    /\ sleep_for = 0
    /\ result = <<>>
    /\ fetch_log = <<>>
    /\ discovered = <<>>
    /\ delays = 0
    /\ first_single = FALSE
    /\ ex_nodes = <<>>
    /\ ex_posts = <<>>
    /\ attrs = [self \in Calls |-> NoInput]
    /\ \E inputs \in [Calls -> PairInputs] :
         calls = [c \in Calls |->
                    [pc |-> "start", scraper_input |-> inputs[c],
                     job_list |-> <<>>, page |-> 0, results_wanted |-> 0,
                     job_elements |-> Unfetched, idx |-> 0,
                     initial_count |-> 0, result |-> <<>>,
                     fetch_log |-> <<>>, discovered |-> <<>>]]

\* Lines 32-37.
PairBegin(c) ==
    /\ calls[c].pc = "start"
    /\ attrs' = [attrs EXCEPT ![InputSlot(c)] = calls[c].scraper_input]
    /\ calls' = [calls EXCEPT
                   ![c].job_list = <<>>,
                   ![c].page = 1,
                   ![c].results_wanted =
                       ResultsWanted(calls[c].scraper_input.results_wanted),
                   ![c].pc = "while"]
    /\ UNCHANGED <<call_vars, ex_vars>>

\* Line 39.
PairLoopTest(c) ==
    /\ calls[c].pc = "while"
    /\ calls' = [calls EXCEPT
                   ![c].pc =
                       IF LoopGuard(Len(calls[c].job_list),
                                    calls[c].results_wanted)
                       THEN "fetch" ELSE "truncate"]
    /\ UNCHANGED <<attrs, call_vars, ex_vars>>

\* Lines 40-48; the query is self.scraper_input.search_term.
PairFetch(c) ==
    /\ calls[c].pc = "fetch"
    /\ LET query == attrs[InputSlot(c)].search_term
       IN  \E response \in PairResponses(query) :
             LET elements == FetchJobs(response)
                 logged == [calls EXCEPT
                              ![c].fetch_log =
                                  Append(@, [query |-> query,
                                             page |-> calls[c].page,
                                             yield |-> Yield(response)]),
                              ![c].discovered =
                                  @ \o ExtractAll(response.nodes)]
             IN  calls' =
                   IF elements.kind = "exc"
                   THEN [logged EXCEPT ![c].pc = "raised"]
                   ELSE IF Falsy(elements)
                   THEN [logged EXCEPT ![c].job_elements = elements,
                                       ![c].pc = "truncate"]
                   ELSE [logged EXCEPT ![c].job_elements = elements,
                                       ![c].initial_count =
                                           Len(calls[c].job_list),
                                       ![c].idx = 1,
                                       ![c].pc = "for"]
    /\ UNCHANGED <<attrs, call_vars, ex_vars>>

\* Lines 49-63, one node.
PairExtractNode(c) ==
    /\ calls[c].pc = "for"
    /\ calls[c].idx <= Len(calls[c].job_elements.nodes)
    /\ LET r == ExtractJobInfo(calls[c].job_elements.nodes[calls[c].idx])
           todo == NodeOutcome(r)
           longer == AppendJob(calls[c].job_list, r.post)
       IN  calls' =
             IF todo = "append"
             THEN IF QuotaBreak(Len(longer), calls[c].results_wanted)
                  THEN [calls EXCEPT ![c].job_list = longer,
                                     ![c].pc = "check"]
                  ELSE [calls EXCEPT ![c].job_list = longer,
                                     ![c].idx = @ + 1]
             ELSE IF todo = "skip"
             THEN [calls EXCEPT ![c].idx = @ + 1]
             ELSE [calls EXCEPT ![c].pc = "raised"]
    /\ UNCHANGED <<attrs, call_vars, ex_vars>>

\* The for loop runs out of nodes.
PairEndOfPage(c) ==
    /\ calls[c].pc = "for"
    /\ calls[c].idx > Len(calls[c].job_elements.nodes)
    /\ calls' = [calls EXCEPT ![c].pc = "check"]
    /\ UNCHANGED <<attrs, call_vars, ex_vars>>

\* Lines 65-70.
PairAfterPage(c) ==
    /\ calls[c].pc = "check"
    /\ calls' =
         IF Stagnant(Len(calls[c].job_list), calls[c].initial_count)
         THEN [calls EXCEPT ![c].pc = "truncate"]
         ELSE [calls EXCEPT ![c].page = NextPage(@), ![c].pc = "sleep"]
    /\ UNCHANGED <<attrs, call_vars, ex_vars>>

\* time.sleep returns.
PairWake(c) ==
    /\ calls[c].pc = "sleep"
    /\ calls' = [calls EXCEPT ![c].pc = "while"]
    /\ UNCHANGED <<attrs, call_vars, ex_vars>>

\* Lines 72-73; the slice reads the parameter scraper_input.
PairReturn(c) ==
    /\ calls[c].pc = "truncate"
    /\ calls' = [calls EXCEPT
                   ![c].result =
                       Truncate(calls[c].job_list,
                                calls[c].scraper_input.results_wanted),
                   ![c].pc = "done"]
    /\ UNCHANGED <<attrs, call_vars, ex_vars>>

NextPair ==
    \E c \in Calls :
        \/ PairBegin(c)
        \/ PairLoopTest(c)
        \/ PairFetch(c)
        \/ PairExtractNode(c)
        \/ PairEndOfPage(c)
        \/ PairAfterPage(c)
        \/ PairWake(c)
        \/ PairReturn(c)

SpecPair == InitPair /\ [][NextPair]_vars

TypeOK ==
    /\ pc \in {"start", "while", "fetch", "for", "check", "sleep",
               "truncate", "done", "raised"}
    /\ page \in 0 .. (DefaultResultsWanted + 1)
    /\ Len(job_list) <= DefaultResultsWanted
(***************************************************************************)
(* Properties.                                                             *)
(***************************************************************************)
\* The requested count N of the call, when it is set.
Requested == scraper_input.results_wanted
HasN == Requested # NoInt
N == Requested[1]

IsPrefix(s, t) == Len(s) <= Len(t) /\ s = SubSeq(t, 1, Len(s))
Take(s, n) == SubSeq(s, 1, Min(Max(n, 0), Len(s)))
LastFetch == fetch_log[Len(fetch_log)]

\* C1 (truncation law): for a requested count N >= 1, when the pages served
\* to the call hold at least N listings that extract, the returned list has
\* exactly N records.
C1_TruncationLaw ==
    (pc = "done" /\ HasN /\ N >= 1 /\ Len(discovered) >= N)
        => Len(result) = N

\* C1 witness: N = 3 met across two pages that hold more than 3 listings.
C1_Witness ==
    /\ pc = "done" /\ HasN /\ N = 3
    /\ Len(fetch_log) = 2
    /\ Len(discovered) > 3
    /\ Len(result) = 3

\* C2 (first fetch fails): when the first fetch of the call fails, no other
\* fetch is issued, nothing is accumulated, the returned list is empty and
\* no exception leaves scrape.
C2_FirstFetchFails ==
    (fetch_log # <<>> /\ fetch_log[1].yield = "failure")
        => /\ Len(fetch_log) = 1
           /\ pc \in {"truncate", "done"}
           /\ job_list = <<>>
           /\ (pc = "done" => result = <<>>)

\* C2 witness: scrape has returned after a failed first fetch.
C2_Witness ==
    /\ pc = "done"
    /\ fetch_log # <<>> /\ fetch_log[1].yield = "failure"
    /\ result = <<>>

\* C3 (stagnation rule): a fetched page with at least one node of which none
\* extracts is the last page fetched, and scrape returns the records it held
\* before that page, also when they are fewer than the requested count.
C3_Stagnation ==
    \A i \in 1 .. Len(fetch_log) :
        fetch_log[i].yield = "barren"
            => /\ i = Len(fetch_log)
               /\ pc \in {"for", "check", "truncate", "done"}
               /\ Len(job_list) = initial_count
               /\ job_list = discovered
               /\ (pc = "done" => result = job_list)

\* C3 witness: scrape returned after a barren second page with one record,
\* fewer than requested.
C3_Witness ==
    /\ pc = "done"
    /\ Len(fetch_log) = 2 /\ fetch_log[2].yield = "barren"
    /\ Len(result) = 1
    /\ Len(result) < results_wanted

\* Page 2 is the page fetched last and holds, like page 1, one single valid
\* listing with the detail URL of the record of page 1; more than one record
\* is wanted.
RepeatedSingle ==
    /\ Len(fetch_log) = 2
    /\ first_single
    /\ job_elements.kind = "list"
    /\ Len(job_elements.nodes) = 1
    /\ ExtractJobInfo(job_elements.nodes[1]).kind = "post"
    /\ job_list # <<>>
    /\ ExtractJobInfo(job_elements.nodes[1]).post.job_url = job_list[1].job_url
    /\ results_wanted > 1

C5_Exhaustion ==
    \A i \in 1 .. Len(fetch_log) :
        fetch_log[i].yield \in {"failure", "empty"}
            => /\ i = Len(fetch_log)
               /\ pc \in {"truncate", "done"}
               /\ Len(job_list) < results_wanted
               /\ job_list = discovered
               /\ (pc = "done" => result = job_list)

\* C5 witness: page 1 held 3 valid and 2 malformed listings, 10 records are
\* wanted, the fetch of page 2 failed, and the 3 records are returned.
C5_Witness ==
    /\ pc = "done"
    /\ results_wanted = 10
    /\ Len(fetch_log) = 2 /\ fetch_log[2].yield = "failure"
    /\ result = ExtractAll(PageThreeValidTwoMalformed)
    /\ Len(result) = 3

\* C6 (rate limiting): once a third page has been fetched with listings that
\* extract, at least 2 sleeps have been begun; every sleep lasts between
\* delay and delay + band_delay.
C6_RateLimit ==
    /\ (Len(fetch_log) >= 3 /\ fetch_log[3].yield = "fruitful") => delays >= 2
    /\ (pc = "sleep" => sleep_for \in delay .. (delay + band_delay))
    /\ (pc # "sleep" => sleep_for = 0)
    /\ (delays > 0 => page = delays + 1)

\* C6 witness: a sleep of the longest duration after the third page.
C6_Witness ==
    /\ pc = "sleep"
    /\ Len(fetch_log) = 3 /\ fetch_log[3].yield = "fruitful"
    /\ delays = 3
    /\ sleep_for = delay + band_delay

\* C7 (discovery order): the accumulator and the returned list are prefixes
\* of the extractable records of the fetched pages, in page order and
\* on-page order.
C7_DiscoveryOrder ==
    /\ IsPrefix(job_list, discovered)
    /\ (pc = "done" => IsPrefix(result, discovered))

\* C7 witness: 5 records wanted, page 1 holds 8 valid listings, the first 5
\* are returned in order.
C7_Witness ==
    /\ pc = "done"
    /\ HasN /\ N = 5
    /\ Len(fetch_log) = 1
    /\ job_elements.nodes = PageEightValid
    /\ result = SubSeq(ExtractAll(PageEightValid), 1, 5)
    /\ result[1] # result[2]

\* C8 (no deduplication): a listing served again, at a position of the
\* discovery order within the wanted count, is appended again: after a page
\* the accumulator holds its records also when their URL is in an earlier
\* page's records, and the returned list holds both occurrences.
C8_NoDeduplication ==
    /\ pc = "check" =>
         LET recs == ExtractAll(job_elements.nodes)
         IN  \A k \in 1 .. Len(recs) :
                 ( /\ initial_count + k <= results_wanted
                   /\ \E i \in 1 .. initial_count :
                          job_list[i].job_url = recs[k].job_url )
                 => /\ Len(job_list) >= initial_count + k
                    /\ job_list[initial_count + k] = recs[k]
    /\ pc = "done" =>
         \A j \in 1 .. Len(discovered) : \A i \in 1 .. (j - 1) :
             (discovered[i].job_url = discovered[j].job_url
              /\ j <= results_wanted)
                 => /\ Len(result) >= j
                    /\ result[i] = discovered[i]
                    /\ result[j] = discovered[j]

\* C8 witness: page 1 held one listing, a later page held it again, and the
\* returned list has the record twice.
C8_Witness ==
    /\ pc = "done"
    /\ first_single
    /\ Len(fetch_log) >= 2
    /\ Len(result) >= 2
    /\ result[1].job_url = result[2].job_url

KindOf(node) == ExtractJobInfo(node).kind

\* C9 (catch-and-skip): a node whose extraction returns None or raises adds
\* no record and does not end the page: what a page has added is the
\* extractable records of the nodes passed so far, and after the page those
\* of all its nodes up to the wanted count; scrape does not raise.
C9_CatchAndSkip ==
    /\ pc # "raised"
    /\ pc = "for" =>
         /\ Len(job_list) < results_wanted
         /\ SubSeq(job_list, initial_count + 1, Len(job_list))
              = ExtractAll(SubSeq(job_elements.nodes, 1, idx - 1))
    /\ pc = "check" =>
         SubSeq(job_list, initial_count + 1, Len(job_list))
           = Take(ExtractAll(job_elements.nodes),
                  results_wanted - initial_count)

\* C9 witness: the last page held a node that raises before a valid node;
\* the valid node was appended and returned.
C9_Witness ==
    /\ pc = "done"
    /\ job_elements.kind = "list"
    /\ \E i, j \in 1 .. Len(job_elements.nodes) :
         /\ i < j
         /\ KindOf(job_elements.nodes[i]) = "exc"
         /\ KindOf(job_elements.nodes[j]) = "post"
    /\ Len(result) = initial_count + 1

\* C10 (default count): with results_wanted unset the loop runs with a
\* wanted count of 10: no page is fetched or processed further once 10
\* records are held, the returned list has at most 10 records, and exactly
\* 10 when the fetched pages held at least 10 listings that extract.
C10_DefaultCount ==
    Requested = NoInt
        => /\ (pc # "start" => results_wanted = 10)
           /\ Len(job_list) <= 10
           /\ (Len(job_list) = 10 => pc \notin {"fetch", "for"})
           /\ (pc = "done" =>
                 /\ result = job_list
                 /\ (Len(discovered) >= 10 => Len(result) = 10))

\* C10 witness: results_wanted unset and 10 records returned.
C10_Witness ==
    /\ Requested = NoInt
    /\ pc = "done"
    /\ Len(result) = 10

C12_QuotaBeforeFetch ==
    pc = "fetch"
        => /\ Len(job_list) < results_wanted
           /\ (HasN => Len(job_list) < N)

\* C12 witness: the fetch of page 2 is about to be issued with one record
\* missing.
C12_Witness ==
    /\ pc = "fetch"
    /\ page = 2
    /\ HasN
    /\ Len(job_list) = N - 1

\* C13 (page cursor, no retry): the i-th fetch of a call is the fetch of
\* page i, and a fetch that fails or returns no node is the last one.
C13_PageCursor ==
    \A i \in 1 .. Len(fetch_log) :
        /\ fetch_log[i].page = i
        /\ (fetch_log[i].yield \in {"failure", "empty"} => i = Len(fetch_log))
        /\ (i = Len(fetch_log) /\ pc \in {"for", "check"} => page = i)
        /\ (pc = "fetch" => page = Len(fetch_log) + 1)

\* C13 witness: pages 1, 2, 3 were fetched, the third fetch failed, and
\* scrape returned.
C13_Witness ==
    /\ pc = "done"
    /\ Len(fetch_log) = 3
    /\ fetch_log[3].page = 3
    /\ fetch_log[3].yield = "failure"

\* C14 as stated (delays only between fetches): a sleep is performed only
\* when no stop condition holds: during every sleep fewer records are held
\* than wanted, so that the sleep is followed by another fetch.
C14_DelayOnlyBetweenFetches ==
    pc = "sleep" => Len(job_list) < results_wanted

\* C15 (a partially failing page does not stop pagination): once the page
\* fetched last has been processed and has added a record, with fewer
\* records held than wanted, scrape is on its way to the fetch of the next
\* page number and does not return.
C15_PartialPageContinues ==
    ( /\ fetch_log # <<>>
      /\ LastFetch.yield = "fruitful"
      /\ pc # "for"
      /\ Len(job_list) > initial_count
      /\ Len(job_list) < results_wanted )
    => /\ pc \in {"check", "sleep", "while", "fetch"}
       /\ (pc = "check" => page = LastFetch.page)
       /\ (pc # "check" => page = LastFetch.page + 1)

\* C15 witness: page 1 held a failing node and a valid node, and the fetch
\* of page 2 is about to be issued.
C15_Witness ==
    /\ pc = "fetch"
    /\ page = 2
    /\ Len(fetch_log) = 1
    /\ job_elements.kind = "list"
    /\ \E i, j \in 1 .. Len(job_elements.nodes) :
         /\ KindOf(job_elements.nodes[i]) # "post"
         /\ KindOf(job_elements.nodes[j]) = "post"
    /\ Len(job_list) < results_wanted

\* C18 (accumulator bound): never more records are held than wanted; with
\* the wanted count held no node is extracted any more; the truncation
\* discards nothing.
C18_AccumulatorBound ==
    /\ pc # "start" => Len(job_list) <= results_wanted
    /\ (HasN /\ N >= 1) => Len(job_list) <= N
    /\ (pc = "for" => Len(job_list) < results_wanted)
    /\ (pc = "done" => result = job_list)

\* C18 witness: the wanted count was met in the middle of a page whose
\* later node extracts, and what is returned is the accumulator.
C18_Witness ==
    /\ pc = "done"
    /\ HasN
    /\ Len(job_list) = N
    /\ job_elements.kind = "list"
    /\ idx < Len(job_elements.nodes)
    /\ KindOf(job_elements.nodes[idx + 1]) = "post"
    /\ result = job_list

\* C16 (extraction result): _extract_job_info returns a record exactly for
\* a node with an <h2> that holds an <a> with an href, and None for every
\* other node; the record of a node without company element or location
\* element has a None company name or a None location.
C16_ExtractionResult ==
    \A i \in 1 .. Len(ex_posts) :
        LET node == ex_nodes[i]
            r == ex_posts[i]
        IN  /\ r.kind = "post" <=> (node.h2 /\ node.a /\ node.href # NoStr)
            /\ r.kind # "post" => r.kind = "none"
            /\ r.kind = "post" =>
                 /\ (node.company = NoStr <=> r.post.company_name = NoStr)
                 /\ (node.location = NoStr <=> r.post.city = NoStr)
                 /\ r.post.title = node.title

\* C16 witness: a node with heading and link and neither company nor
\* location gave a record with both None, and a node whose <a> has no href
\* gave None.
C16_Witness ==
    /\ Len(ex_posts) = 2
    /\ ex_posts[1].kind = "post"
    /\ ex_nodes[1].company = NoStr /\ ex_nodes[1].location = NoStr
    /\ ex_posts[1].post.company_name = NoStr
    /\ ex_posts[1].post.city = NoStr
    /\ ex_nodes[2].h2 /\ ex_nodes[2].a /\ ex_nodes[2].href = NoStr
    /\ ex_posts[2].kind = "none"

\* C19 (bounded termination): whatever the site serves, scrape returns; it
\* issues at most as many fetches as records are wanted (the requested
\* count N >= 1 when it is set), since every fetch but the last one added
\* a record.
C19_BoundedTermination ==
    /\ [](/\ Len(fetch_log) <= results_wanted
          /\ (HasN /\ N >= 1 => Len(fetch_log) <= N)
          /\ Len(fetch_log) <= Len(job_list) + 1
          /\ (pc = "fetch" => Len(fetch_log) <= Len(job_list))
          /\ pc # "raised")
    /\ <>(pc = "done")

\* C19 witness: scrape returned after 3 fetches, as many as requested, each
\* of which added one record.
C19_Witness ==
    /\ pc = "done"
    /\ HasN /\ N = 3
    /\ Len(fetch_log) = 3
    /\ Len(result) = 3

\* C17 (isolation of invocations): with two calls on two instances
\* interleaved, every fetch of a call carries the search term of that call
\* and the page number of its own cursor, the records a call holds are
\* listings of its own query, in the order its own pages held them, and
\* what it returns is what its own pages and its own requested count give.
C17_Isolation ==
    \A c \in Calls :
        LET call == calls[c]
            own == call.scraper_input
        IN  /\ \A i \in 1 .. Len(call.fetch_log) :
                   /\ call.fetch_log[i].query = own.search_term
                   /\ call.fetch_log[i].page = i
            /\ IsPrefix(call.job_list, call.discovered)
            /\ \A i \in 1 .. Len(call.job_list) :
                   call.job_list[i] =
                       ExtractJobInfo(ListingOf(own.search_term)).post
            /\ call.pc # "raised"
            /\ call.pc = "done" =>
                   call.result = Take(call.discovered, own.results_wanted[1])

\* C17 witness: both calls returned, with different search terms, each
\* after two fetches, the first with two records and the second with one.
C17_Witness ==
    /\ calls[1].pc = "done" /\ calls[2].pc = "done"
    /\ calls[1].scraper_input.search_term # calls[2].scraper_input.search_term
    /\ Len(calls[1].fetch_log) = 2 /\ Len(calls[2].fetch_log) = 2
    /\ Len(calls[1].result) = 2 /\ Len(calls[2].result) = 1
    /\ calls[1].result[1] # calls[2].result[1]
====
